---- MODULE Spec2Model ----
(***************************************************************************)
(* Model of src/median_regression.py: the polling loop main_loop() that    *)
(* tracks open positions, records their prices and decides exits.          *)
(*                                                                         *)
(* Units.  Every price (yes_bid, yes_ask, entry, peak) is an integer       *)
(* number of cents; the code holds them as float dollars.  Percentages     *)
(* and ratios are compared exactly by cross-multiplication, so float       *)
(* rounding at an exact boundary is not modelled.  Time is whole seconds.  *)
(* A median is carried doubled (med2 = 2 * median) so that it stays an     *)
(* integer for a history of even length.                                   *)
(***************************************************************************)
EXTENDS Integers, Sequences, FiniteSets, TLC

VARIABLES
    price_hist,       \* dict ticker -> deque(maxlen=ROLLING_WINDOW)   (line 377)
    entry_times,      \* dict ticker -> time of first recording        (line 378)
    highest_prices,   \* dict ticker -> peak price                     (line 379)
    known_positions,  \* keys "<ticker>_<shares>" logged as new        (line 381)
    sold_positions,   \* keys "<ticker>_<shares>" that were sold       (line 382)
    now,              \* time.time() read at line 395
    pc,               \* where main_loop is: "poll", "iter", "backoff", "stopped"
    all_pos,          \* positions of this cycle the for loop has not visited yet
    polls_left,       \* cycles still to be explored (bound of the model)
    universe,         \* the keys (ticker, shares) the account can report (fixed)
    raised,           \* kind of the exception that last left the try block
    last,             \* what the latest for-loop iteration did (observation)
    accepted,         \* per key: sell orders accepted while the ticker stayed reported
    ep,               \* per ticker: the tracking episode as the spec defines it
    call              \* a call of a pure function on its own: arguments and result

vars == <<price_hist, entry_times, highest_prices, known_positions,
          sold_positions, now, pc, all_pos, polls_left, universe, raised, last,
          accepted, ep, call>>

progVars == <<price_hist, entry_times, highest_prices, known_positions,
              sold_positions>>

----------------------------------------------------------------------------
(* Program constants                                                       *)

MIN_OPEN_INTEREST == 100
MAX_SPREAD_PCT == 2
DEVIATION_THRESHOLD_PCT == 5
BASE_DEVIATION_THRESHOLD == 5
VOLATILITY_MULTIPLIER == 1
VOLATILITY_THRESHOLD_ENABLED == TRUE
HOURS_BEFORE_CLOSE == 2
MIN_HOLD_TIME == 30
STOP_LOSS_PERCENT == 10        \* 0.10, as a percentage
STOP_LOSS_FLOOR == 35          \* $0.35, in cents
MAX_LOSS_PER_TRADE == 12       \* 0.12, as a percentage
TIME_BASED_STOP_LOSS == 2700
BREAK_EVEN_TIMER == 1800
BREAK_EVEN_LOW == 2            \* pnl_percent >= -2
BREAK_EVEN_HIGH == 3           \* pnl_percent <= 3
REFRESH_RATE == 2

(* Bounds of the model                                                     *)

ROLLING_WINDOW == 3            \* MR_WINDOW: capacity of a price history
MaxPolls == 4                  \* cycles explored, account with one position
MaxPollsPair == 1              \* cycles explored, account with two positions
MaxPollsResidual == 3          \* cycles explored, position of one or two shares
MaxCents == 100                \* prices given to should_execute_stop: 0..MaxCents
MaxHistLen == 4                \* longest history given to calculate_dynamic_threshold

Tickers == {"A", "B"}
Shares == {1, 2}
Keys == Tickers \X Shares
Prices == {0, 30, 50}                 \* yes_bid quotes, cents
Entries == {0, 49, 51}                \* cost basis per share, cents
\* seconds between two readings of the clock (line 395)
Deltas == {REFRESH_RATE, TIME_BASED_STOP_LOSS}

\* market data get_market returns besides the bid: open interest, ask - bid,
\* and the close time as hours from now (published or not)
Markets ==
    { [oi |-> 100, spread |-> 0, closes |-> FALSE, hours |-> 0],
      [oi |-> 100, spread |-> 0, closes |-> TRUE,  hours |-> 1],
      [oi |-> 100, spread |-> 0, closes |-> TRUE,  hours |-> 3],
      [oi |-> 50,  spread |-> 0, closes |-> FALSE, hours |-> 0],
      [oi |-> 100, spread |-> 10, closes |-> FALSE, hours |-> 0] }

----------------------------------------------------------------------------
(* Arithmetic helpers                                                      *)

Abs(x) == IF x < 0 THEN -x ELSE x

Max2(a, b) == IF a >= b THEN a ELSE b

RECURSIVE GCD(_, _)
GCD(a, b) == IF b = 0 THEN a ELSE GCD(b, a % b)

RECURSIVE SeqSum(_)
SeqSum(s) == IF s = <<>> THEN 0 ELSE Head(s) + SeqSum(Tail(s))

RECURSIVE SeqSumSq(_)
SeqSumSq(s) == IF s = <<>> THEN 0 ELSE Head(s) * Head(s) + SeqSumSq(Tail(s))

RECURSIVE SeqMax(_)
SeqMax(s) == IF Len(s) = 1 THEN s[1] ELSE Max2(Head(s), SeqMax(Tail(s)))

LastN(s, n) == IF Len(s) <= n THEN s ELSE SubSeq(s, Len(s) - n + 1, Len(s))

----------------------------------------------------------------------------
(* Pure functions of the source                                            *)

is_market_liquid_always(open_interest, yes_bid, yes_ask) == TRUE

\* is_market_liquid (lines 134-149): open interest, then the spread as a
\* percentage of the bid when both quotes are positive
is_market_liquid(open_interest, yes_bid, yes_ask) ==
    IF open_interest < MIN_OPEN_INTEREST THEN FALSE
    ELSE IF yes_bid > 0 /\ yes_ask > 0
              /\ 100 * Abs(yes_ask - yes_bid) > MAX_SPREAD_PCT * yes_bid
         THEN FALSE
         ELSE TRUE

\* is_market_active_for_entry (lines 152-171): no close time admits; else the
\* hours left must not be below HOURS_BEFORE_CLOSE
is_market_active_for_entry(market) ==
    IF ~market.closes THEN TRUE
    ELSE IF market.hours < HOURS_BEFORE_CLOSE THEN FALSE
    ELSE TRUE

\* deque(maxlen=ROLLING_WINDOW).append (lines 415, 422)
deque_append(h, x) ==
    IF Len(h) < ROLLING_WINDOW THEN Append(h, x)
    ELSE Append(Tail(h), x)

\* statistics.median (line 423), doubled: the middle of the sorted data, or
\* the sum of the two middle values
median2(h) ==
    LET srt == SortSeq(h, LAMBDA a, b: a < b)
        n == Len(h)
    IN IF n % 2 = 1 THEN 2 * srt[(n + 1) \div 2]
       ELSE srt[n \div 2] + srt[n \div 2 + 1]

med2_always(h, current) == median2(h)

\* line 423: the median needs three prices, else the current price stands in
med2_of(h, current) == IF Len(h) >= 3 THEN median2(h) ELSE 2 * current

\* line 428: dev_pct as a fraction num/den (den > 0)
dev_pct(current, med2) ==
    IF med2 # 0 THEN [num |-> 100 * (2 * current - med2), den |-> med2]
    ELSE [num |-> 0, den |-> 1]

\* lines 281, 429: pnl percent as a fraction num/den (den > 0)
pnl_pct(current, entry) ==
    IF entry > 0 THEN [num |-> 100 * (current - entry), den |-> entry]
    ELSE [num |-> 0, den |-> 1]

dynamic_threshold_inverted(enabled, prices) ==
    IF ~enabled \/ Len(prices) < 3
    THEN [base |-> DEVIATION_THRESHOLD_PCT, mult |-> 0, cv2n |-> 0, cv2d |-> 1]
    ELSE LET n == Len(prices)
             S == SeqSum(prices)
             num == n * (n * SeqSumSq(prices) - S * S)
             den == (n - 1) * S * S
             g == GCD(num, den)
         IN IF S > 0
            THEN [base |-> BASE_DEVIATION_THRESHOLD, mult |-> VOLATILITY_MULTIPLIER,
                  cv2n |-> IF num = 0 THEN 0 ELSE den \div g,
                  cv2d |-> IF num = 0 THEN 1 ELSE num \div g]
            ELSE [base |-> BASE_DEVIATION_THRESHOLD, mult |-> VOLATILITY_MULTIPLIER,
                  cv2n |-> 0, cv2d |-> 1]

\* calculate_dynamic_threshold (lines 174-195).  The result is
\* base * (1 + mult * sqrt(cv2n / cv2d)), where cv2n / cv2d is the square of
\* the coefficient of variation stdev / mean (sample stdev, n - 1), kept as a
\* reduced fraction; cv2n = 0 when the result is the base threshold itself.
dynamic_threshold_given(enabled, prices) ==
    IF ~enabled \/ Len(prices) < 3
    THEN [base |-> DEVIATION_THRESHOLD_PCT, mult |-> 0, cv2n |-> 0, cv2d |-> 1]
    ELSE LET n == Len(prices)
             S == SeqSum(prices)
             num == n * (n * SeqSumSq(prices) - S * S)
             den == (n - 1) * S * S
             g == GCD(num, den)
         IN IF S > 0
            THEN [base |-> BASE_DEVIATION_THRESHOLD, mult |-> VOLATILITY_MULTIPLIER,
                  cv2n |-> num \div g, cv2d |-> den \div g]
            ELSE [base |-> BASE_DEVIATION_THRESHOLD, mult |-> VOLATILITY_MULTIPLIER,
                  cv2n |-> 0, cv2d |-> 1]

\* the function as the program calls it: the feature flag is the global of
\* line 40
calculate_dynamic_threshold(prices) ==
    dynamic_threshold_given(VOLATILITY_THRESHOLD_ENABLED, prices)

\* dev_pct >= dynamic_threshold (line 450), exactly:
\*   d.num/d.den >= base * (1 + mult * sqrt(cv2n/cv2d))
\*   <=> p/q >= mult * sqrt(cv2n/cv2d),  p = d.num - base*d.den, q = base*d.den
dev_reaches(d, thr) ==
    LET p0 == d.num - thr.base * d.den
        q0 == thr.base * d.den
        g == GCD(Abs(p0), q0)
        p == p0 \div g
        q == q0 \div g
    IN /\ p0 >= 0
       /\ p * p * thr.cv2d >= thr.mult * thr.mult * q * q * thr.cv2n

\* calculate_stop_loss (lines 272-275), times 100
calculate_stop_loss(entry, current_bid) ==
    Max2(entry * (100 - STOP_LOSS_PERCENT), 100 * STOP_LOSS_FLOOR)

stop_rules_break_even_first(current_bid, entry, hold_time) ==
    LET stop_price == calculate_stop_loss(entry, current_bid)
        pnl == pnl_pct(current_bid, entry)
    IN IF 100 * current_bid <= stop_price THEN "Stop Loss Hit"
       ELSE IF pnl.num <= -MAX_LOSS_PER_TRADE * pnl.den THEN "Max Loss Exceeded"
       ELSE IF /\ hold_time >= BREAK_EVEN_TIMER
               /\ pnl.num >= -BREAK_EVEN_LOW * pnl.den
               /\ pnl.num <= BREAK_EVEN_HIGH * pnl.den
            THEN "Break-Even Exit"
       ELSE IF hold_time >= TIME_BASED_STOP_LOSS /\ pnl.num < 0 THEN "Time-Based Stop"
       ELSE "none"

\* should_execute_stop (lines 278-302): the rule that fires, or "none"
stop_rules(current_bid, entry, hold_time) ==
    LET stop_price == calculate_stop_loss(entry, current_bid)
        pnl == pnl_pct(current_bid, entry)
    IN IF 100 * current_bid <= stop_price THEN "Stop Loss Hit"
       ELSE IF pnl.num <= -MAX_LOSS_PER_TRADE * pnl.den THEN "Max Loss Exceeded"
       ELSE IF hold_time >= TIME_BASED_STOP_LOSS /\ pnl.num < 0 THEN "Time-Based Stop"
       ELSE IF /\ hold_time >= BREAK_EVEN_TIMER
               /\ pnl.num >= -BREAK_EVEN_LOW * pnl.den
               /\ pnl.num <= BREAK_EVEN_HIGH * pnl.den
            THEN "Break-Even Exit"
       ELSE "none"

should_execute_stop(ticker, current_bid, entry, hold_time) ==
    IF hold_time < MIN_HOLD_TIME THEN "none"
    ELSE stop_rules(current_bid, entry, hold_time)

track_peak_latest(peak, current) == current

\* lines 433-435: the peak follows the price upwards
track_peak(peak, current) == IF current > peak THEN current ELSE peak

\* line 450, without the sold marker: deviation reached and in profit
take_profit_cond(current, entry, h) ==
    LET med2 == med2_of(h, current)
        pnl == pnl_pct(current, entry)
    IN /\ dev_reaches(dev_pct(current, med2), calculate_dynamic_threshold(h))
       /\ pnl.num > 0

----------------------------------------------------------------------------
(* State                                                                   *)

NoIteration ==
    [ticker |-> "", shares |-> 0, path |-> "start", tracked |-> FALSE,
     recorded |-> FALSE, evaluated |-> FALSE, was_sold |-> FALSE,
     tp_cond |-> FALSE, stop_cond |-> "none", tp_order |-> "none",
     stop_order |-> "none", stop_rule |-> "none", logged |-> "none",
     hold |-> 0, current |-> 0, med2 |-> 0, skipped |-> 0,
     hist_len |-> 0, dev_num |-> 0, orders |-> <<>>, new_logged |-> FALSE,
     bid |-> 0, oi |-> 0, spread |-> 0, wait |-> 0, known |-> FALSE]

NoEpisode ==
    [phase |-> "none", prior |-> "none", start |-> 0, prices |-> <<>>,
     new_logs |-> 0]

NoCall == [fn |-> "none", args |-> <<>>, done |-> FALSE, result |-> <<>>]

InitLoop ==
    /\ price_hist = <<>>
    /\ entry_times = <<>>
    /\ highest_prices = <<>>
    /\ known_positions = {}
    /\ sold_positions = {}
    /\ now = 0
    /\ pc = "poll"
    /\ all_pos = <<>>
    /\ raised = "none"
    /\ last = NoIteration
    /\ accepted = [k \in Keys |-> 0]
    /\ ep = [t \in Tickers |-> NoEpisode]
    /\ call = NoCall

\* an account that holds one position of one share
Init == InitLoop /\ universe = {<<"A", 1>>} /\ polls_left = MaxPolls

\* an account that holds positions in two markets
InitPair ==
    InitLoop /\ universe = {<<"A", 1>>, <<"B", 1>>} /\ polls_left = MaxPollsPair

\* an account whose position in one market is reported with one or two shares
InitResidual ==
    InitLoop /\ universe = {<<"A", 1>>, <<"A", 2>>}
             /\ polls_left = MaxPollsResidual

\* dict helpers: d[k] = v, del d[k], d.get(k, default)
dict_set(d, k, v) == [x \in DOMAIN d \cup {k} |-> IF x = k THEN v ELSE d[x]]

dict_del(d, k) ==
    IF DOMAIN d \ {k} = {} THEN <<>> ELSE [x \in DOMAIN d \ {k} |-> d[x]]

dict_get(d, k, default) == IF k \in DOMAIN d THEN d[k] ELSE default

\* the except clauses of main_loop (lines 501-506): where the loop goes
on_exception_break == "stopped"

on_exception == "backoff"

on_keyboard_interrupt == "stopped"
----------------------------------------------------------------------------
(* One iteration of the for loop (lines 397-495)                           *)

create_order_one_share(ticker, count, action) ==
    [ticker |-> ticker, action |-> action, count |-> 1,
     type |-> "market", side |-> "yes"]

\* execute_order (lines 258-269): the order request of line 264; the two
\* call sites (lines 452, 461) pass the position's shares and action "sell"
create_order(ticker, count, action) ==
    [ticker |-> ticker, action |-> action, count |-> count,
     type |-> "market", side |-> "yes"]

\* line 458: the stops run unless the key is marked sold by now
stops_enabled(key, sold_now) == key \notin sold_now

\* lines 466-470: what a confirmed exit deletes
clear_on_sold(d, ticker) == dict_del(d, ticker)

\* The episode of a ticker as the spec defines it (observation): it opens at
\* the first recorded price, is "exited" by a confirmed exit, and is over
\* (phase "none", with how it ended in prior) once the brokerage no longer
\* reports the ticker.
ep_record(e, current, sold) ==
    LET opened == IF e.phase = "none"
                  THEN [phase |-> "open", prior |-> e.prior, start |-> now,
                        prices |-> <<current>>, new_logs |-> 0]
                  ELSE IF e.phase = "open"
                  THEN [e EXCEPT !.prices = Append(@, current)]
                  ELSE e
    IN IF sold /\ opened.phase = "open"
       THEN [opened EXCEPT !.phase = "exited"]
       ELSE opened

\* a NEW POSITION line was written for the ticker (line 443 returned)
ep_new_logged(e, new_logged) ==
    IF new_logged THEN [e EXCEPT !.new_logs = @ + 1] ELSE e

ep_unreported(e) ==
    IF e.phase = "open" THEN [NoEpisode EXCEPT !.prior = "ceased"]
    ELSE IF e.phase = "exited" THEN [NoEpisode EXCEPT !.prior = "exited"]
    ELSE e

\* Lines 397-445 for position pos (ticker, shares) with cost basis entry, the
\* market fetch answering fetch ("ok", "error": get_market raises, "no_bid":
\* the market has no yes_bid_dollars), the bid current and the market data:
\* the dictionaries after the recording, and how far the iteration got
\* (path "exits": the exit logic of lines 447-472 is next).
observe(pos, entry, fetch, current, market) ==
    LET ticker == pos.ticker
        key == <<ticker, pos.shares>>
        same == [price_hist |-> price_hist, entry_times |-> entry_times,
                 highest_prices |-> highest_prices,
                 known_positions |-> known_positions,
                 ticker |-> ticker, key |-> key, entry |-> entry,
                 current |-> current, is_new |-> FALSE, hold_sec |-> 0,
                 tp_cond |-> FALSE]
        obs0 == [NoIteration EXCEPT !.ticker = ticker, !.shares = pos.shares,
                   !.tracked = /\ ticker \in DOMAIN price_hist
                               /\ key \in known_positions
                               /\ key \notin sold_positions,
                   !.was_sold = key \in sold_positions]
    IN
    IF pos.shares <= 0                                    \* lines 398-400
    THEN same @@ [path |-> "zero", obs |-> obs0]
    ELSE IF fetch = "error"                               \* line 403 raises
    THEN same @@ [path |-> "market_error", obs |-> obs0]
    ELSE IF fetch = "no_bid"                              \* line 404 raises
    THEN same @@ [path |-> "missing_field", obs |-> obs0]
    ELSE
    LET \* lines 403-405: the quote get_market returned, and how long the
        \* ticker has had an entry time when it is read
        obsq == [obs0 EXCEPT !.bid = current, !.oi = market.oi,
                             !.spread = market.spread,
                             !.wait = now - dict_get(entry_times, ticker, now)]
    IN
    IF ~is_market_liquid(market.oi, current, current + market.spread)
    THEN same @@ [path |-> "illiquid", obs |-> obsq]      \* lines 410-411
    ELSE
    LET \* lines 414-435
        h1 == deque_append(dict_get(price_hist, ticker, <<>>), current)
        et1 == dict_get(entry_times, ticker, now)
        hp1 == track_peak(dict_get(highest_prices, ticker, current), current)
        hold_sec == now - et1
        tp_cond == take_profit_cond(current, entry, h1)
        is_new == key \notin known_positions
        active == is_market_active_for_entry(market)      \* line 441
        rec == [same EXCEPT !.price_hist = dict_set(price_hist, ticker, h1),
                            !.entry_times = dict_set(entry_times, ticker, et1),
                            !.highest_prices = dict_set(highest_prices, ticker, hp1),
                            !.known_positions =
                                IF is_new /\ active THEN @ \cup {key} ELSE @,
                            !.is_new = is_new, !.hold_sec = hold_sec,
                            !.tp_cond = tp_cond]
        obs1 == [obsq EXCEPT !.recorded = TRUE, !.hold = hold_sec,
                             !.current = current, !.med2 = med2_of(h1, current),
                             !.hist_len = Len(h1),
                             !.dev_num = dev_pct(current, med2_of(h1, current)).num,
                             !.tp_cond = tp_cond,
                             !.stop_cond = should_execute_stop(ticker, current,
                                                               entry, hold_sec)]
    IN
    IF is_new /\ ~active                                  \* lines 444-445
    THEN rec @@ [path |-> "too_close", obs |-> obs1]
    ELSE rec @@ [path |-> "exits", obs |-> obs1]

\* What the collaborators answer to the calls of lines 443-464: whether each
\* write to the trade log succeeds and whether each order is accepted.
AllAnswers ==
    [new_log_ok : BOOLEAN, tp_order_ok : BOOLEAN, tp_log_ok : BOOLEAN,
     stop_order_ok : BOOLEAN, stop_log_ok : BOOLEAN]

\* Answers to calls that are not made change nothing: TRUE stands for them.
AnswersFor(o) ==
    {a \in AllAnswers :
        /\ (o.path # "exits" \/ ~o.is_new) => a.new_log_ok
        /\ ~a.new_log_ok =>
              a.tp_order_ok /\ a.tp_log_ok /\ a.stop_order_ok /\ a.stop_log_ok
        /\ (o.path # "exits" \/ ~o.tp_cond \/ o.obs.was_sold) =>
              a.tp_order_ok /\ a.tp_log_ok
        /\ ~a.tp_order_ok => a.tp_log_ok
        /\ (o.path # "exits" \/ o.obs.stop_cond = "none" \/ o.obs.was_sold) =>
              a.stop_order_ok /\ a.stop_log_ok
        /\ ~a.stop_order_ok => a.stop_log_ok}

\* Lines 443-472 after observe: the new-position log line, the take-profit
\* exit, the safety stops and the clean-up of a sold position.  aborted: an
\* exception left the for loop; n_accepted: orders execute_order accepted.
decide(o, a) ==
    LET key == o.key
        base == [price_hist |-> o.price_hist, entry_times |-> o.entry_times,
                 highest_prices |-> o.highest_prices,
                 known_positions |-> o.known_positions,
                 sold_positions |-> sold_positions,
                 aborted |-> FALSE, n_accepted |-> 0, sold |-> FALSE]
    IN
    IF o.path \in {"market_error", "missing_field"}
    THEN [base EXCEPT !.aborted = TRUE] @@ [obs |-> [o.obs EXCEPT !.path = o.path]]
    ELSE IF o.path # "exits"
    THEN base @@ [obs |-> [o.obs EXCEPT !.path = o.path]]
    ELSE IF o.is_new /\ ~a.new_log_ok                     \* line 443 raises
    THEN [base EXCEPT !.aborted = TRUE]
            @@ [obs |-> [o.obs EXCEPT !.path = "log_error"]]
    ELSE
    LET \* lines 447-455
        obs2 == [o.obs EXCEPT !.evaluated = TRUE, !.new_logged = o.is_new,
                              !.known = key \in o.known_positions]
        tp_fires == key \notin sold_positions /\ o.tp_cond
        tp_sold == tp_fires /\ a.tp_order_ok
        tp_order == IF ~tp_fires THEN "none"
                    ELSE IF a.tp_order_ok THEN "accepted" ELSE "failed"
        tp_orders == IF tp_fires
                     THEN <<create_order(o.ticker, o.obs.shares, "sell")>>
                     ELSE <<>>
    IN
    IF tp_sold /\ ~a.tp_log_ok                            \* line 453 raises
    THEN [base EXCEPT !.aborted = TRUE, !.n_accepted = 1]
            @@ [obs |-> [obs2 EXCEPT !.path = "log_error", !.tp_order = tp_order,
                                     !.orders = tp_orders]]
    ELSE
    LET sold1 == IF tp_sold THEN sold_positions \cup {key} ELSE sold_positions
        \* lines 457-464
        stop_rule == IF stops_enabled(key, sold1)
                     THEN should_execute_stop(o.ticker, o.current, o.entry, o.hold_sec)
                     ELSE "none"
        stop_fires == stop_rule # "none"
        stop_sold == stop_fires /\ a.stop_order_ok
        stop_order == IF ~stop_fires THEN "none"
                      ELSE IF a.stop_order_ok THEN "accepted" ELSE "failed"
        stop_orders == IF stop_fires
                       THEN <<create_order(o.ticker, o.obs.shares, "sell")>>
                       ELSE <<>>
        obs3 == [obs2 EXCEPT !.tp_order = tp_order, !.stop_order = stop_order,
                             !.stop_rule = stop_rule,
                             !.orders = tp_orders \o stop_orders,
                             !.logged = IF tp_sold THEN "Median reversion" ELSE "none"]
        n1 == IF tp_sold THEN 1 ELSE 0
    IN
    IF stop_sold /\ ~a.stop_log_ok                        \* line 462 raises
    THEN [base EXCEPT !.aborted = TRUE, !.sold_positions = sold1,
                      !.n_accepted = n1 + 1]
            @@ [obs |-> [obs3 EXCEPT !.path = "log_error"]]
    ELSE
    LET sold2 == IF stop_sold THEN sold1 \cup {key} ELSE sold1
        sold == tp_sold \/ stop_sold
        obs4 == [obs3 EXCEPT !.logged = IF stop_sold THEN stop_rule ELSE @,
                             !.path = IF sold THEN "sold" ELSE "held"]
        n2 == n1 + (IF stop_sold THEN 1 ELSE 0)
    IN
    IF sold                                               \* lines 466-472
    THEN [base EXCEPT !.sold_positions = sold2, !.n_accepted = n2,
                      !.sold = TRUE,
                      !.price_hist = clear_on_sold(@, o.ticker),
                      !.entry_times = clear_on_sold(@, o.ticker)]
            @@ [obs |-> obs4]
    ELSE [base EXCEPT !.sold_positions = sold2] @@ [obs |-> obs4]

----------------------------------------------------------------------------
(* The loop (lines 385-506)                                                *)

\* what get_positions can report: for each ticker of the account a share
\* count, 0 standing for a position that is flat or not reported at all
held_tickers == {k[1] : k \in universe}

Reports ==
    {[i \in 1..Len(order) |-> [ticker |-> order[i], shares |-> sh[order[i]]]] :
        order \in {IF "B" \in held_tickers THEN <<"A", "B">> ELSE <<"A">>},
        sh \in {f \in [held_tickers -> {0} \cup Shares] :
                  \A t \in held_tickers : f[t] = 0 \/ <<t, f[t]>> \in universe}}

reported(report, t) ==
    \E i \in 1..Len(report) : report[i].ticker = t /\ report[i].shares > 0

\* lines 393-395: the positions are fetched and the clock is read
PollOk ==
    /\ pc = "poll"
    /\ polls_left > 0
    /\ \E report \in Reports, d \in Deltas :
          /\ all_pos' = report
          /\ now' = now + d
          /\ ep' = [t \in Tickers |->
                      IF reported(report, t) THEN ep[t] ELSE ep_unreported(ep[t])]
          /\ accepted' = [k \in Keys |->
                      IF reported(report, k[1]) THEN accepted[k] ELSE 0]
    /\ pc' = "iter"
    /\ polls_left' = polls_left - 1
    /\ UNCHANGED <<call, progVars, universe, raised, last>>

\* line 393 raises: the cycle is abandoned
PollFails ==
    /\ pc = "poll"
    /\ pc' = on_exception
    /\ raised' = "Exception"
    /\ UNCHANGED <<call, progVars, now, all_pos, polls_left, universe, last, accepted, ep>>

\* one iteration of the for loop over all_pos
Iterate ==
    /\ pc = "iter"
    /\ all_pos # <<>>
    /\ \E pos \in {Head(all_pos)} :
       \E fetch \in IF pos.shares > 0 THEN {"ok", "error", "no_bid"} ELSE {"ok"} :
       \E entry \in IF pos.shares > 0 /\ fetch = "ok" THEN Entries ELSE {0} :
       \E current \in IF pos.shares > 0 /\ fetch = "ok" THEN Prices ELSE {0} :
       \E market \in IF pos.shares > 0 /\ fetch = "ok" THEN Markets
                     ELSE {CHOOSE m \in Markets : TRUE} :
       \E o \in {observe(pos, entry, fetch, current, market)} :
       \E a \in AnswersFor(o) :
       \E r \in {decide(o, a)} :
          /\ price_hist' = r.price_hist
          /\ entry_times' = r.entry_times
          /\ highest_prices' = r.highest_prices
          /\ known_positions' = r.known_positions
          /\ sold_positions' = r.sold_positions
          /\ last' = [r.obs EXCEPT !.skipped =
                         IF r.aborted
                         THEN Cardinality({i \in 2..Len(all_pos) :
                                              all_pos[i].shares > 0})
                         ELSE 0]
          /\ pc' = IF r.aborted THEN on_exception ELSE "iter"
          /\ raised' = IF r.aborted THEN "Exception" ELSE raised
          /\ accepted' =
                IF pos.shares > 0
                THEN [accepted EXCEPT ![o.key] = @ + r.n_accepted]
                ELSE accepted
          /\ ep' = IF r.obs.recorded
                   THEN [ep EXCEPT ![pos.ticker] =
                            ep_new_logged(ep_record(@, current, r.sold),
                                          r.obs.new_logged)]
                   ELSE ep
          /\ all_pos' = IF r.aborted THEN <<>> ELSE Tail(all_pos)
    /\ UNCHANGED <<call, now, polls_left, universe>>

\* lines 497-499: the dashboard is rendered and the loop sleeps; the cycle
\* is over (the observation of its iterations is dropped with it)
RenderOk ==
    /\ pc = "iter"
    /\ all_pos = <<>>
    /\ pc' = "poll"
    /\ last' = NoIteration
    /\ UNCHANGED <<call, progVars, now, all_pos, polls_left, universe, raised, accepted, ep>>

\* line 498 raises (the dashboard reads the trade log)
RenderFails ==
    /\ pc = "iter"
    /\ all_pos = <<>>
    /\ pc' = on_exception
    /\ raised' = "Exception"
    /\ last' = NoIteration
    /\ UNCHANGED <<call, progVars, now, all_pos, polls_left, universe, accepted, ep>>

\* lines 504-506: the error is printed, the loop sleeps 3 s and goes on
Backoff ==
    /\ pc = "backoff"
    /\ pc' = "poll"
    /\ raised' = "none"
    /\ last' = NoIteration
    /\ UNCHANGED <<call, progVars, now, all_pos, polls_left, universe, accepted, ep>>

\* lines 501-503: KeyboardInterrupt ends the loop; main_loop returns and its
\* local dictionaries are gone
Interrupt ==
    /\ pc \in {"poll", "iter", "backoff"}
    /\ pc' = on_keyboard_interrupt
    /\ raised' = "KeyboardInterrupt"
    /\ price_hist' = <<>>
    /\ entry_times' = <<>>
    /\ highest_prices' = <<>>
    /\ known_positions' = {}
    /\ sold_positions' = {}
    /\ all_pos' = <<>>
    /\ ep' = [t \in Tickers |-> NoEpisode]
    /\ UNCHANGED <<call, now, polls_left, universe, last, accepted>>

Next ==
    \/ PollOk
    \/ PollFails
    \/ Iterate
    \/ RenderOk
    \/ RenderFails
    \/ Backoff
    \/ Interrupt

Spec == Init /\ [][Next]_vars

SpecPair == InitPair /\ [][Next]_vars

SpecResidual == InitResidual /\ [][Next]_vars

----------------------------------------------------------------------------
(* The pure functions called on their own                                  *)

Cents == 0..MaxCents

\* hold times on both sides of every threshold of should_execute_stop
StopHolds ==
    {0, MIN_HOLD_TIME - 1, MIN_HOLD_TIME, BREAK_EVEN_TIMER, TIME_BASED_STOP_LOSS}

Histories == UNION {[1..k -> Prices] : k \in 0..MaxHistLen}

\* should_execute_stop(ticker, current_bid, entry, hold_time)
StopCalls ==
    {[fn |-> "should_execute_stop", args |-> <<c, e, h>>, done |-> FALSE,
      result |-> <<>>] : c \in Cents, e \in Cents, h \in StopHolds}

\* calculate_dynamic_threshold(prices), with the feature flag of line 40 on
\* or off, for two histories side by side
ThresholdCalls ==
    {[fn |-> "calculate_dynamic_threshold", args |-> <<en, h1, h2>>,
      done |-> FALSE, result |-> <<>>] :
        en \in BOOLEAN, h1 \in Histories, h2 \in Histories}

\* should_execute_stop called on every position state, entry by entry: the
\* entry to try next and the reasons returned so far
SweepStart ==
    [fn |-> "should_execute_stop, every state", args |-> <<0>>, done |-> FALSE,
     result |-> {}]

InitFn ==
    /\ price_hist = <<>>
    /\ entry_times = <<>>
    /\ highest_prices = <<>>
    /\ known_positions = {}
    /\ sold_positions = {}
    /\ now = 0
    /\ pc = "call"
    /\ all_pos = <<>>
    /\ polls_left = 0
    /\ universe = {}
    /\ raised = "none"
    /\ last = NoIteration
    /\ accepted = [k \in Keys |-> 0]
    /\ ep = [t \in Tickers |-> NoEpisode]
    /\ (call \in StopCalls \/ call \in ThresholdCalls \/ call = SweepStart)

CallStop ==
    /\ pc = "call"
    /\ call.fn = "should_execute_stop"
    /\ ~call.done
    /\ call' = [call EXCEPT !.done = TRUE,
                            !.result = should_execute_stop("A", call.args[1],
                                                           call.args[2], call.args[3])]
    /\ UNCHANGED <<progVars, now, pc, all_pos, polls_left, universe, raised, last,
                   accepted, ep>>

CallThreshold ==
    /\ pc = "call"
    /\ call.fn = "calculate_dynamic_threshold"
    /\ ~call.done
    /\ call' = [call EXCEPT !.done = TRUE,
                            !.result =
                                <<dynamic_threshold_given(call.args[1], call.args[2]),
                                  dynamic_threshold_given(call.args[1], call.args[3])>>]
    /\ UNCHANGED <<progVars, now, pc, all_pos, polls_left, universe, raised, last,
                   accepted, ep>>

SweepStop ==
    /\ pc = "call"
    /\ call.fn = SweepStart.fn
    /\ ~call.done
    /\ LET e == call.args[1]
           got == {should_execute_stop("A", c, e, h) : c \in Cents, h \in StopHolds}
       IN call' = [call EXCEPT !.args = <<IF e < MaxCents THEN e + 1 ELSE e>>,
                               !.done = (e = MaxCents),
                               !.result = @ \cup got]
    /\ UNCHANGED <<progVars, now, pc, all_pos, polls_left, universe, raised, last,
                   accepted, ep>>

NextFn ==
    \/ CallStop
    \/ CallThreshold
    \/ SweepStop

SpecFn == InitFn /\ [][NextFn]_vars

\* The loop is one sequential thread: once in the except clause it prints,
\* sleeps and goes back to the head of the while loop.
SpecLive == Spec /\ WF_vars(Backoff)

----------------------------------------------------------------------------
(* Properties                                                              *)

Min2(a, b) == IF a <= b THEN a ELSE b

\* the k-th smallest value of s, by counting (no sorting)
OrderStat(s, k) ==
    CHOOSE v \in {s[i] : i \in 1..Len(s)} :
        /\ Cardinality({i \in 1..Len(s) : s[i] < v}) < k
        /\ k <= Cardinality({i \in 1..Len(s) : s[i] <= v})

\* twice the statistical median of s
StatMedian2(s) ==
    IF Len(s) % 2 = 1 THEN 2 * OrderStat(s, (Len(s) + 1) \div 2)
    ELSE OrderStat(s, Len(s) \div 2) + OrderStat(s, Len(s) \div 2 + 1)

\* the latest iteration reached the exit logic of lines 447-464
ReachedExits == last.path \in {"held", "sold"}

\* C1: while a ticker stays reported, at most one sell order is accepted for
\* a position key, also across cycles that an error aborted.
C1_AtMostOneAcceptedOrder == \A k \in Keys : accepted[k] <= 1

\* C2: a position that is tracked (it has a price history, is known and is
\* not sold) and is reported, with its market fetched, has its price recorded
\* and its exit rules evaluated in that cycle whatever the market's liquidity
\* or close time.
C2_TrackedNeverDropped ==
    (/\ last.tracked
     /\ last.shares > 0
     /\ last.path \notin {"market_error", "missing_field"})
        => (last.recorded /\ last.evaluated)

\* C3: in an episode that follows an earlier one (closed by a confirmed exit
\* or by the brokerage no longer reporting the ticker) entry_time is the time
\* of the episode's first poll, price_history holds only the episode's prices
\* and peak_price is the maximum of the episode's prices.
C3_FreshEpisode ==
    \A t \in Tickers :
        (ep[t].phase = "open" /\ ep[t].prior # "none")
            => /\ t \in DOMAIN entry_times
               /\ entry_times[t] = ep[t].start
               /\ t \in DOMAIN price_hist
               /\ price_hist[t] = LastN(ep[t].prices, ROLLING_WINDOW)
               /\ t \in DOMAIN highest_prices
               /\ highest_prices[t] = SeqMax(ep[t].prices)

\* C4: in an episode that began after the previous one was exited and the
\* ticker was no longer reported, the exit rules are evaluated: the sold
\* marker of the earlier episode does not block them.
C4_SoldMarkerEndsWithEpisode ==
    \A t \in Tickers :
        (/\ last.ticker = t
         /\ ReachedExits
         /\ ep[t].phase = "open"
         /\ ep[t].prior = "exited")
            => ~last.was_sold

\* C5: when an unsold position satisfies the take-profit condition and a stop
\* rule in the same poll, an exit that is executed and logged carries the
\* take-profit reason.
C5_TakeProfitPrecedence ==
    (/\ ReachedExits
     /\ ~last.was_sold
     /\ last.tp_cond
     /\ last.stop_cond # "none"
     /\ last.logged # "none")
        => last.logged = "Median reversion"

\* C6: in a poll where the hold time, counted from the first poll of the
\* ticker's episode, is below MIN_HOLD_TIME, no stop rule fires: no stop
\* order is requested and no stop reason is logged.
C6_MinHoldGate ==
    (/\ last.recorded
     /\ ep[last.ticker].phase # "none"
     /\ now - ep[last.ticker].start < MIN_HOLD_TIME)
        => /\ last.stop_rule = "none"
           /\ last.stop_order = "none"
           /\ last.logged \in {"none", "Median reversion"}

\* C7: when the order of a fired exit fails, the sold marker is not set, the
\* price history and entry time are kept and no trade-log line is written
\* (looked at while the loop runs: its dictionaries exist).
C7_FailedOrderKeepsTracking ==
    (pc # "stopped" /\ (last.tp_order = "failed" \/ last.stop_order = "failed"))
        => /\ <<last.ticker, last.shares>> \notin sold_positions
           /\ last.ticker \in DOMAIN price_hist
           /\ last.ticker \in DOMAIN entry_times
           /\ last.logged = "none"

\* C8: a market that lacks a field does not abort the cycle: the loop does
\* not go to the error handler and no position of the cycle is left
\* unvisited.
C8_AnomalyAbsorbed ==
    last.path = "missing_field" => (pc # "backoff" /\ last.skipped = 0)

\* C9: the loop stops only on KeyboardInterrupt, and that step requests no
\* order; any other exception takes the loop to the backoff, and from the
\* backoff the loop always gets back to the head of the next cycle unless it
\* is interrupted.
C9_OnlyInterruptStops ==
    /\ [][/\ (pc' = "stopped" /\ pc # "stopped") =>
                (/\ raised' = "KeyboardInterrupt"
                 /\ accepted' = accepted
                 /\ last' = last)
          /\ (raised' = "Exception" /\ raised # "Exception") =>
                (pc' = "backoff")
          /\ (pc = "backoff") => (pc' \in {"poll", "stopped"})
          /\ (pc = "stopped") => (pc' = "stopped")]_vars
    /\ (pc = "backoff") ~> (pc \in {"poll", "stopped"})

\* C9 witness: an exception aborted a cycle without stopping the loop, and
\* the loop stopped later on KeyboardInterrupt.
C9_Witness ==
    /\ pc = "stopped"
    /\ raised = "KeyboardInterrupt"
    /\ last.path = "log_error"

\* C10: the price history of a ticker is the last ROLLING_WINDOW prices
\* recorded in its episode, oldest first; its length is min(number recorded
\* in the episode, ROLLING_WINDOW); and with three or more prices the median
\* used for the deviation is the statistical median of exactly those prices.
C10_FifoWindow ==
    \A t \in DOMAIN price_hist :
        ep[t].phase = "open"
            => /\ price_hist[t] = LastN(ep[t].prices, ROLLING_WINDOW)
               /\ Len(price_hist[t]) = Min2(Len(ep[t].prices), ROLLING_WINDOW)
               /\ (last.ticker = t /\ last.recorded /\ Len(price_hist[t]) >= 3)
                     => last.med2 = StatMedian2(LastN(ep[t].prices, ROLLING_WINDOW))

\* C11: in a poll where the price history, the current price included, has
\* fewer than three entries, the median used is the current price and the
\* deviation is 0.
C11_ShortHistoryNoDeviation ==
    (last.recorded /\ last.hist_len < 3)
        => (last.med2 = 2 * last.current /\ last.dev_num = 0)

\* C11 witness: a history of two different prices was used in a poll.
C11_Witness ==
    /\ last.recorded
    /\ last.hist_len = 2
    /\ last.ticker \in DOMAIN price_hist
    /\ price_hist[last.ticker][1] # last.current

\* C12: within an episode the peak price never decreases from one poll to
\* the next, and it is at least every price recorded in the episode.
C12_PeakMonotone ==
    /\ [](\A t \in Tickers :
             ep[t].phase # "none"
                => /\ t \in DOMAIN highest_prices
                   /\ highest_prices[t] >= SeqMax(ep[t].prices))
    /\ [][\A t \in Tickers :
             (ep[t].phase # "none" /\ ep'[t].phase # "none")
                => highest_prices'[t] >= highest_prices[t]]_vars

\* C12 witness: the price fell below the peak of the episode and the peak
\* was kept.
C12_Witness ==
    /\ ep["A"].phase = "open"
    /\ Len(ep["A"].prices) >= 2
    /\ "A" \in DOMAIN highest_prices
    /\ highest_prices["A"] > ep["A"].prices[Len(ep["A"].prices)]

\* C13: while the account keeps reporting a ticker, at most one NEW
\* POSITION line is written for it, whatever share count is reported.
C13_NewPositionLoggedOnce == \A t \in Tickers : ep[t].new_logs <= 1

\* C14: in one poll at most one exit rule fires for a position and at most
\* one order is requested: when the take-profit rule fired, accepted or
\* not, no stop rule is evaluated and no second order is requested.
C14_OneExitPerPoll ==
    /\ Len(last.orders) <= 1
    /\ last.tp_order # "none"
          => (last.stop_rule = "none" /\ last.stop_order = "none")

\* The conditions of the four stop rules as the spec words them, in cents
\* (pnl % = 100 * (c - e) / e, and 0 when there is no cost basis).
StopLossDue(c, e) ==
    \/ 100 * c <= (100 - STOP_LOSS_PERCENT) * e
    \/ c <= STOP_LOSS_FLOOR

MaxLossDue(c, e) == e > 0 /\ 100 * (c - e) <= -MAX_LOSS_PER_TRADE * e

TimeStopDue(c, e, h) == h >= TIME_BASED_STOP_LOSS /\ e > 0 /\ c < e

BreakEvenDue(c, e, h) ==
    /\ h >= BREAK_EVEN_TIMER
    /\ \/ e <= 0
       \/ /\ 100 * (c - e) >= -BREAK_EVEN_LOW * e
          /\ 100 * (c - e) <= BREAK_EVEN_HIGH * e

\* C15: the maximum-loss rule is a backstop of its own: among all position
\* states (every price and entry in cents, hold times on both sides of every
\* threshold) there is one in which the stop loss does not fire and the
\* reason is "Max Loss Exceeded".
C15_MaxLossReachable ==
    (call.fn = SweepStart.fn /\ call.done)
        => "Max Loss Exceeded" \in call.result

\* C16: past the minimum hold the reason is that of the first true rule in
\* the order stop loss, max loss, time-based stop, break-even; so with hold
\* time >= TIME_BASED_STOP_LOSS and a loss that reaches neither the stop
\* loss nor the max loss, the reason is the time-based stop, also inside the
\* break-even band.
C16_StopRuleOrder ==
    (call.fn = "should_execute_stop" /\ call.done)
        => LET c == call.args[1]
               e == call.args[2]
               h == call.args[3]
           IN /\ h >= MIN_HOLD_TIME
                    => call.result =
                          IF StopLossDue(c, e) THEN "Stop Loss Hit"
                          ELSE IF MaxLossDue(c, e) THEN "Max Loss Exceeded"
                          ELSE IF TimeStopDue(c, e, h) THEN "Time-Based Stop"
                          ELSE IF BreakEvenDue(c, e, h) THEN "Break-Even Exit"
                          ELSE "none"
              /\ (/\ TimeStopDue(c, e, h)
                  /\ ~StopLossDue(c, e)
                  /\ ~MaxLossDue(c, e))
                    => call.result = "Time-Based Stop"

\* C16 witness: a loss inside the break-even band held for
\* TIME_BASED_STOP_LOSS seconds got the time-based reason.
C16_Witness ==
    /\ call.fn = "should_execute_stop"
    /\ call.done
    /\ TimeStopDue(call.args[1], call.args[2], call.args[3])
    /\ BreakEvenDue(call.args[1], call.args[2], call.args[3])
    /\ ~StopLossDue(call.args[1], call.args[2])
    /\ call.result = "Time-Based Stop"

\* The squared coefficient of variation of a history with a positive mean,
\* from the deviations: sum (n*x - S)^2 / ((n - 1) * S^2), as a reduced
\* fraction.
RECURSIVE SumDevSq(_, _, _)
SumDevSq(s, n, S) ==
    IF s = <<>> THEN 0
    ELSE (n * Head(s) - S) * (n * Head(s) - S) + SumDevSq(Tail(s), n, S)

StatCV2(h) ==
    LET n == Len(h)
        S == SeqSum(h)
        num == SumDevSq(h, n, S)
        den == (n - 1) * S * S
        g == GCD(num, den)
    IN [num |-> num \div g, den |-> den \div g]

\* threshold t equals the base threshold
ThrIsBase(t) ==
    t.base = BASE_DEVIATION_THRESHOLD /\ (t.mult = 0 \/ t.cv2n = 0)

\* threshold t1 <= threshold t2, the value being base + base*mult*sqrt(cv2)
ThrLe(t1, t2) ==
    /\ t1.base = t2.base
    /\ t1.base * t1.mult >= 0
    /\ t2.base * t2.mult >= 0
    /\ (t1.base * t1.mult) * (t1.base * t1.mult) * t1.cv2n * t2.cv2d
          <= (t2.base * t2.mult) * (t2.base * t2.mult) * t2.cv2n * t1.cv2d

\* C19: calculate_dynamic_threshold returns the base threshold when the
\* volatility feature is off or the history has fewer than three prices;
\* when on, its result is never below the base threshold and does not
\* decrease when the coefficient of variation of the history grows.
C19_ThresholdMonotone ==
    (call.fn = "calculate_dynamic_threshold" /\ call.done)
        => LET enabled == call.args[1]
               h1 == call.args[2]
               h2 == call.args[3]
               t1 == call.result[1]
               t2 == call.result[2]
               base == [base |-> BASE_DEVIATION_THRESHOLD, mult |-> 0,
                        cv2n |-> 0, cv2d |-> 1]
           IN /\ (~enabled \/ Len(h1) < 3) => ThrIsBase(t1)
              /\ ThrLe(base, t1)
              /\ (/\ enabled
                  /\ Len(h1) >= 3 /\ SeqSum(h1) > 0
                  /\ Len(h2) >= 3 /\ SeqSum(h2) > 0
                  /\ StatCV2(h1).num * StatCV2(h2).den
                        <= StatCV2(h2).num * StatCV2(h1).den)
                    => ThrLe(t1, t2)

\* C19 witness: two histories of different volatility got different
\* thresholds, both above the base.
C19_Witness ==
    /\ call.fn = "calculate_dynamic_threshold"
    /\ call.done
    /\ call.args[1]
    /\ Len(call.args[2]) >= 3
    /\ Len(call.args[3]) > Len(call.args[2])
    /\ ~ThrIsBase(call.result[1])
    /\ ThrLe(call.result[1], call.result[2])
    /\ ~ThrLe(call.result[2], call.result[1])

\* C18: every order requested in a poll is a sell of the position's ticker
\* for the full share count reported for it in that poll.
C18_FullSellOnly ==
    \A i \in 1..Len(last.orders) :
        /\ last.orders[i].action = "sell"
        /\ last.orders[i].ticker = last.ticker
        /\ last.orders[i].count = last.shares

\* C18 witness: a position reported with two shares was sold by an accepted
\* order.
C18_Witness ==
    /\ last.shares = 2
    /\ Len(last.orders) = 1
    /\ last.path = "sold"

\* C20: in the first two recorded polls of an episode the take-profit rule
\* does not fire: its condition is false and no take-profit order is
\* requested.
C20_NoEarlyTakeProfit ==
    (/\ last.recorded
     /\ ~last.was_sold
     /\ ep[last.ticker].phase # "none"
     /\ Len(ep[last.ticker].prices) <= 2)
        => (~last.tp_cond /\ last.tp_order = "none")

\* C17: a re-attempted exit ends the episode once its order is accepted:
\* in the poll where execute_order succeeds the position reaches EXITED (sold
\* marker set, price history and entry time cleared) and its trade-log line
\* is written (looked at while the loop runs).
C17_AcceptedOrderExits ==
    (/\ pc # "stopped"
     /\ (last.tp_order = "accepted" \/ last.stop_order = "accepted"))
        => /\ <<last.ticker, last.shares>> \in sold_positions
           /\ last.ticker \notin DOMAIN price_hist
           /\ last.ticker \notin DOMAIN entry_times
           /\ last.logged # "none"

\* the liquidity requirement as the gate states it: enough open interest,
\* and a spread of at most MAX_SPREAD_PCT percent of the bid when both quotes
\* are positive
LiquidityMet(oi, bid, ask) ==
    /\ oi >= MIN_OPEN_INTEREST
    /\ (bid > 0 /\ ask > 0) => 100 * Abs(ask - bid) <= MAX_SPREAD_PCT * bid

\* C21: every order request of a poll comes after the liquidity check passed
\* for the market quoted in that poll and with the position key marked known
\* (admitted by the time-to-close gate): no order is requested for an
\* illiquid market or for a key that is not known.
C21_OrdersBehindGates ==
    (last.orders # <<>>)
        => /\ LiquidityMet(last.oi, last.bid, last.bid + last.spread)
           /\ last.known
           /\ <<last.ticker, last.shares>> \in known_positions \/ pc = "stopped"

\* C21 witness: an order was requested for a known position in a liquid
\* market.
C21_Witness ==
    /\ last.orders # <<>>
    /\ last.oi >= MIN_OPEN_INTEREST
    /\ last.known
    /\ <<last.ticker, last.shares>> \in known_positions

\* C22: a position that is admitted (known), unsold and tracked for at least
\* MIN_HOLD_TIME seconds, and whose market quotes a bid at or below the
\* stop-loss floor in this poll, has an exit order requested in this poll,
\* whatever its entry price and PnL are.
C22_FloorStopFires ==
    (/\ last.tracked
     /\ last.shares > 0
     /\ last.path \notin {"start", "zero", "market_error", "missing_field"}
     /\ last.wait >= MIN_HOLD_TIME
     /\ last.bid <= STOP_LOSS_FLOOR)
        => last.orders # <<>>

====
